---- MODULE Spec2Model ----
(***************************************************************************)
(* Model of nomic/gpt4all.py (class GPT4All: constructor, session          *)
(* operations and the byte-by-byte reader _parse_to_prompt) and of         *)
(* nomic/aws/sagemaker.py (tokenize_text, create_sm_request_for_batch).    *)
(*                                                                         *)
(* Text is a sequence of Unicode code points, a byte string a sequence of  *)
(* integers 0..255.  Python's None is the value None below.                *)
(***************************************************************************)
EXTENDS Integers, Sequences, FiniteSets, TLC

VARIABLES
    \* ---- GPT4All session (gpt4all.py) ----
    bot,              \* self.bot: None or the pid of the Popen handle
    alive,            \* pids of the spawned children that are running
    spawned,          \* number of children spawned so far (pids 1..spawned)
    stdin,            \* pid -> bytes written to that child's stdin
    flushed,          \* pid -> number of bytes of stdin flushed to the child
    pipe,             \* bytes pending in bot.stdout, oldest first
    emitted,          \* bytes the children have written so far
    pc,               \* position of the caller: idle, or inside a call
    caller,           \* the public call in progress / last made
    write_to_stdout,  \* argument of the running _parse_to_prompt
    point,            \* _parse_to_prompt: byte accumulator
    bot_says,         \* _parse_to_prompt: line buffer
    sysout,           \* characters written to sys.stdout
    result,           \* return value of the last call
    error,            \* exception raised by the last call, or "none"
    curPrompt,        \* argument of the running prompt call
    calls,            \* public calls made so far
    \* ---- history of the session, read by the properties only ----
    consumed,         \* bytes read from bot.stdout in this read cycle
    drained,          \* pids whose banner connect has read to a sentinel
    answered,         \* pid -> responses returned by prompt
    input,            \* the stream a direct reader run was given
    \* ---- embedding request builder (sagemaker.py) ----
    tokenizer,        \* the tokenizer: text -> token ids
    embedCall,        \* the last call made: operation and argument
    embedOut,         \* its outcome
    \* ---- GPT4All constructor (gpt4all.py) ----
    fs,               \* state of the two cached files
    platform,         \* platform.platform()
    ctor              \* outcome of the last constructor call

sessionVars == <<bot, alive, spawned, stdin, flushed, pipe, emitted, pc, caller,
                 write_to_stdout, point, bot_says, sysout, result, error,
                 curPrompt, calls, consumed, drained, answered, input>>
embedVars == <<tokenizer, embedCall, embedOut>>
ctorVars == <<fs, platform, ctor>>
vars == <<sessionVars, embedVars, ctorVars>>

None == 0

(***************************************************************************)
(* Bounds of the model.                                                    *)
(***************************************************************************)
MaxText == 3       \* characters of a text fed to the reader
MaxGarbage == 6    \* length of a run of undecodable bytes
MaxRaw == 5        \* length of an arbitrary byte stream
MaxSpawn == 2      \* children one session spawns
MaxCalls == 4      \* public calls on one session
MaxEmit == 5       \* bytes the children write during one session
MaxTokens == 2     \* token ids a tokenizer returns for one text
MaxBatch == 2      \* texts of one batch
MaxCtor == 2       \* constructor calls

(***************************************************************************)
(* Bytes and characters.                                                   *)
(***************************************************************************)
FF == 12           \* "\f", the sentinel
NL == 10           \* "\n"

\* Characters of 1, 2, 3 and 4 UTF-8 bytes: h, newline, e-acute, euro, U+1F600.
Chars == {104, NL, 233, 8364, 128512}

\* Bytes that no UTF-8 sequence starts with: a lone continuation byte, 0xFF.
GarbageBytes == {169, 255}

\* Alphabet of the arbitrary streams: h, sentinel, a continuation, a 2-byte lead.
RawBytes == {104, FF, 169, 195}

SeqsUpTo(S, n) == UNION {[1..k -> S] : k \in 0..n}

\* str.encode('utf-8') of one code point.
EncodeChar(c) ==
    IF c < 128 THEN <<c>>
    ELSE IF c < 2048 THEN <<192 + (c \div 64), 128 + (c % 64)>>
    ELSE IF c < 65536 THEN
        <<224 + (c \div 4096), 128 + ((c \div 64) % 64), 128 + (c % 64)>>
    ELSE <<240 + (c \div 262144), 128 + ((c \div 4096) % 64),
           128 + ((c \div 64) % 64), 128 + (c % 64)>>

RECURSIVE Utf8Encode(_)
Utf8Encode(t) ==
    IF t = <<>> THEN <<>> ELSE EncodeChar(Head(t)) \o Utf8Encode(Tail(t))

\* bytes.decode("utf-8") in strict mode: the code points, or DecodeError for
\* UnicodeDecodeError (a truncated, overlong, surrogate or out-of-range sequence,
\* or an invalid start or continuation byte).
DecodeError == <<-1>>

IsCont(b) == b >= 128 /\ b <= 191

RECURSIVE Utf8Decode(_)
Utf8Decode(s) ==
    IF s = <<>> THEN <<>>
    ELSE LET b0 == s[1]
             n == IF b0 < 128 THEN 1
                  ELSE IF b0 >= 194 /\ b0 <= 223 THEN 2
                  ELSE IF b0 >= 224 /\ b0 <= 239 THEN 3
                  ELSE IF b0 >= 240 /\ b0 <= 244 THEN 4
                  ELSE 0
         IN IF n = 0 \/ Len(s) < n THEN DecodeError
            ELSE LET lo == IF b0 = 224 THEN 160 ELSE IF b0 = 240 THEN 144 ELSE 128
                     hi == IF b0 = 237 THEN 159 ELSE IF b0 = 244 THEN 143 ELSE 191
                     ok == /\ n >= 2 => (s[2] >= lo /\ s[2] <= hi)
                           /\ n >= 3 => IsCont(s[3])
                           /\ n >= 4 => IsCont(s[4])
                     cp == IF n = 1 THEN b0
                           ELSE IF n = 2 THEN (b0 - 192) * 64 + (s[2] - 128)
                           ELSE IF n = 3 THEN (b0 - 224) * 4096 + (s[2] - 128) * 64
                                              + (s[3] - 128)
                           ELSE (b0 - 240) * 262144 + (s[2] - 128) * 4096
                                + (s[3] - 128) * 64 + (s[4] - 128)
                     rest == Utf8Decode(SubSeq(s, n + 1, Len(s)))
                 IN IF ~ok \/ rest = DecodeError THEN DecodeError
                    ELSE <<cp>> \o rest

\* "\n".join(lines)
RECURSIVE Join(_)
Join(lines) ==
    IF Len(lines) = 0 THEN <<>>
    ELSE IF Len(lines) = 1 THEN lines[1]
    ELSE lines[1] \o <<NL>> \o Join(Tail(lines))

(***************************************************************************)
(* _parse_to_prompt, one byte per loop iteration.                          *)
(***************************************************************************)
NoResult == [kind |-> "None", text |-> <<>>]
Str(t) == [kind |-> "str", text |-> t]

ConnectCalls == {"connect", "__enter__"}

\* Entry of _parse_to_prompt: bot_says = [''], point = b''.
StartReader(echo) ==
    /\ bot_says' = <<<<>>>>
    /\ point' = <<>>
    /\ consumed' = <<>>
    /\ write_to_stdout' = echo
    /\ pc' = "read"

\* The test that discards the accumulator after a failed decode.
OverfullLate(p) == Len(p) > 5
OverfullEarly(p) == Len(p) > 2
Overfull(p) == Len(p) > 4

\* point += bot.stdout.read(1), a byte being available.
ReadByte ==
    /\ pc = "read"
    /\ pipe # <<>>
    /\ point' = Append(point, Head(pipe))
    /\ consumed' = Append(consumed, Head(pipe))
    /\ pipe' = Tail(pipe)
    /\ pc' = "decode"
    /\ UNCHANGED <<bot, alive, spawned, stdin, flushed, emitted, caller,
                   write_to_stdout, bot_says, sysout, result, error, curPrompt,
                   calls, drained, answered, input>>
    /\ UNCHANGED <<embedVars, ctorVars>>

\* point += bot.stdout.read(1) at end of stream (the child is gone and the pipe
\* is empty): read returns b'' and the loop goes on.
ReadEOF ==
    /\ pc = "read"
    /\ pipe = <<>>
    /\ bot # None
    /\ bot \notin alive
    /\ pc' = "decode"
    /\ UNCHANGED <<bot, alive, spawned, stdin, flushed, pipe, emitted, caller,
                   write_to_stdout, point, bot_says, sysout, result, error,
                   curPrompt, calls, consumed, drained, answered, input>>
    /\ UNCHANGED <<embedVars, ctorVars>>

\* The return of _parse_to_prompt to the call that made it.
ReaderReturn ==
    /\ pc' = "idle"
    /\ point' = <<>>
    /\ bot_says' = <<<<>>>>
    /\ result' = IF caller \in ConnectCalls THEN NoResult ELSE Str(Join(bot_says))
    /\ drained' = IF caller \in ConnectCalls THEN drained \cup {bot} ELSE drained
    /\ answered' = IF caller = "prompt"
                   THEN [answered EXCEPT ![bot] = @ + 1] ELSE answered
    /\ UNCHANGED sysout

\* The rest of the iteration: decode the accumulator and act on the character.
DecodeStep ==
    /\ pc = "decode"
    /\ LET character == Utf8Decode(point)
       IN IF character = DecodeError
          THEN /\ point' = IF Overfull(point) THEN <<>> ELSE point
               /\ pc' = "read"
               /\ UNCHANGED <<bot_says, sysout, result, drained, answered>>
          ELSE IF character = <<FF>>
          THEN ReaderReturn
          ELSE /\ IF character = <<NL>>
                  THEN bot_says' = Append(bot_says, <<>>)
                  ELSE bot_says' = [bot_says EXCEPT ![Len(bot_says)] = @ \o character]
               /\ sysout' = IF write_to_stdout THEN sysout \o character ELSE sysout
               /\ point' = <<>>
               /\ pc' = "read"
               /\ UNCHANGED <<result, drained, answered>>
    /\ UNCHANGED <<bot, alive, spawned, stdin, flushed, pipe, emitted, caller,
                   write_to_stdout, error, curPrompt, calls, consumed, input>>
    /\ UNCHANGED <<embedVars, ctorVars>>

(***************************************************************************)
(* The states of the parts a specification leaves alone.                   *)
(***************************************************************************)
Pids == 1..MaxSpawn

SessionIdle ==
    /\ bot = None /\ alive = {} /\ spawned = 0
    /\ stdin = [p \in Pids |-> <<>>]
    /\ flushed = [p \in Pids |-> 0]
    /\ pipe = <<>> /\ emitted = 0
    /\ pc = "idle" /\ caller = "__init__"
    /\ write_to_stdout = FALSE
    /\ point = <<>> /\ bot_says = <<<<>>>> /\ sysout = <<>>
    /\ result = NoResult /\ error = "none" /\ curPrompt = <<>>
    /\ calls = 0
    /\ consumed = <<>> /\ drained = {}
    /\ answered = [p \in Pids |-> 0]
    /\ input = [garbage |-> <<>>, text |-> <<>>, kind |-> "none"]

NoIds == [error |-> "none", ids |-> <<>>, input_ids |-> <<>>,
          attention_mask |-> <<>>, shape |-> <<>>]

EmbedIdle ==
    /\ tokenizer = <<>>
    /\ embedCall = [op |-> "none", text |-> "", texts |-> <<>>, hasTok |-> FALSE,
                    model |-> "None"]
    /\ embedOut = NoIds

NoCtor == [n |-> 0, model |-> "", force |-> FALSE, error |-> "none",
           decided |-> {}, requested |-> {}, fetched |-> {}]

CtorIdle ==
    /\ fs = [exe |-> "old",
             model |-> [m \in {"gpt4all-lora-quantized",
                               "gpt4all-lora-unfiltered-quantized"} |-> "old"]]
    /\ platform = "Linux"
    /\ ctor = NoCtor

(***************************************************************************)
(* A direct run of _parse_to_prompt() (write_to_stdout defaults to True)   *)
(* on a connected session whose child has written a whole stream:          *)
(* a run of undecodable bytes, the UTF-8 bytes of a text and the sentinel, *)
(* or arbitrary bytes.                                                     *)
(***************************************************************************)
Texts == SeqsUpTo(Chars, MaxText)

GarbageRuns == {[i \in 1..k |-> g] : k \in 0..MaxGarbage, g \in GarbageBytes}

FramedInputs ==
    {[garbage |-> g, text |-> t, kind |-> "framed"] : g \in GarbageRuns, t \in Texts}

RawInputs ==
    {[garbage |-> <<>>, text |-> r, kind |-> "raw"] : r \in SeqsUpTo(RawBytes, MaxRaw)}

StreamOf(i) ==
    IF i.kind = "raw" THEN i.text
    ELSE i.garbage \o Utf8Encode(i.text) \o <<FF>>

InitReader ==
    /\ input \in FramedInputs \cup RawInputs
    /\ bot = 1 /\ alive = {1} /\ spawned = 1
    /\ stdin = [p \in Pids |-> <<>>]
    /\ flushed = [p \in Pids |-> 0]
    /\ pipe = StreamOf(input) /\ emitted = Len(pipe)
    /\ pc = "read" /\ caller = "_parse_to_prompt"
    /\ write_to_stdout = TRUE
    /\ point = <<>> /\ bot_says = <<<<>>>> /\ sysout = <<>>
    /\ result = NoResult /\ error = "none" /\ curPrompt = <<>>
    /\ calls = 1
    /\ consumed = <<>> /\ drained = {1}
    /\ answered = [p \in Pids |-> 0]
    /\ EmbedIdle /\ CtorIdle

NextReader == ReadByte \/ DecodeStep

SpecReader == InitReader /\ [][NextReader]_vars

(***************************************************************************)
(* The session: connect, __enter__, close, __exit__, prompt, and the child *)
(* process at the other end of the pipes.                                  *)
(***************************************************************************)
Prompts == {<<>>, <<104, 233>>}

\* Start of a public call.
Call(who) ==
    /\ pc = "idle"
    /\ calls < MaxCalls
    /\ calls' = calls + 1
    /\ caller' = who
    /\ result' = NoResult

\* connect with the close of a live handle left out.
ConnectNoKill(ok, who) ==
    /\ Call(who)
    /\ spawned < MaxSpawn
    /\ IF ok
       THEN /\ spawned' = spawned + 1
            /\ bot' = spawned + 1
            /\ alive' = alive \cup {spawned + 1}
            /\ pipe' = <<>>
            /\ error' = "none"
            /\ StartReader(FALSE)
       ELSE /\ bot' = bot
            /\ alive' = alive
            /\ error' = "OSError"
            /\ pipe' = pipe
            /\ UNCHANGED <<spawned, pc, point, bot_says, consumed, write_to_stdout>>
    /\ UNCHANGED <<stdin, flushed, emitted, sysout, curPrompt, drained, answered, input>>
    /\ UNCHANGED <<embedVars, ctorVars>>

\* connect with the read of the banner left out.
ConnectNoDrain(ok, who) ==
    /\ Call(who)
    /\ spawned < MaxSpawn
    /\ IF ok
       THEN /\ spawned' = spawned + 1
            /\ bot' = spawned + 1
            /\ alive' = (IF bot # None THEN alive \ {bot} ELSE alive) \cup {spawned + 1}
            /\ error' = "none"
       ELSE /\ bot' = None
            /\ alive' = IF bot # None THEN alive \ {bot} ELSE alive
            /\ error' = "OSError"
            /\ UNCHANGED spawned
    /\ pipe' = <<>>
    /\ UNCHANGED <<pc, point, bot_says, consumed, write_to_stdout>>
    /\ UNCHANGED <<stdin, flushed, emitted, sysout, curPrompt, drained, answered, input>>
    /\ UNCHANGED <<embedVars, ctorVars>>

\* connect: close a live handle, spawn the child (Popen raises OSError when the
\* executable cannot be run), then read the banner with write_to_stdout=False.
ConnectBody(ok, who) ==
    /\ Call(who)
    /\ spawned < MaxSpawn
    /\ IF ok
       THEN /\ spawned' = spawned + 1
            /\ bot' = spawned + 1
            /\ alive' = (IF bot # None THEN alive \ {bot} ELSE alive) \cup {spawned + 1}
            /\ error' = "none"
            /\ StartReader(FALSE)
       ELSE /\ bot' = None
            /\ alive' = IF bot # None THEN alive \ {bot} ELSE alive
            /\ error' = "OSError"
            /\ UNCHANGED <<spawned, pc, point, bot_says, consumed, write_to_stdout>>
    /\ pipe' = <<>>
    /\ UNCHANGED <<stdin, flushed, emitted, sysout, curPrompt, drained, answered, input>>
    /\ UNCHANGED <<embedVars, ctorVars>>

Connect == \E ok \in BOOLEAN : ConnectBody(ok, "connect")

\* __enter__: self.connect(); return self.
Enter == \E ok \in BOOLEAN : ConnectBody(ok, "__enter__")

\* close: self.bot.kill(); self.bot = None.  With self.bot None the attribute
\* lookup on None raises AttributeError.
CloseBody(who) ==
    /\ Call(who)
    /\ IF bot = None
       THEN /\ error' = "AttributeError"
            /\ UNCHANGED <<bot, alive, pipe>>
       ELSE /\ alive' = alive \ {bot}
            /\ bot' = None
            /\ pipe' = <<>>
            /\ error' = "none"
    /\ UNCHANGED <<spawned, stdin, flushed, emitted, pc, write_to_stdout, point,
                   bot_says, sysout, curPrompt, consumed, drained, answered, input>>
    /\ UNCHANGED <<embedVars, ctorVars>>

Close == CloseBody("close")

\* __exit__: self.close().
Exit == CloseBody("__exit__")

\* prompt: bot.stdin.write(prompt.encode('utf-8')).  With self.bot None the
\* attribute lookup on None raises AttributeError.
Prompt ==
    \E t \in Prompts, echo \in BOOLEAN :
        /\ Call("prompt")
        /\ IF bot = None
           THEN /\ error' = "AttributeError"
                /\ UNCHANGED <<stdin, curPrompt, write_to_stdout, pc>>
           ELSE /\ stdin' = [stdin EXCEPT ![bot] = @ \o Utf8Encode(t)]
                /\ curPrompt' = t
                /\ write_to_stdout' = echo
                /\ pc' = "write_nl"
                /\ error' = "none"
        /\ UNCHANGED <<bot, alive, spawned, flushed, pipe, emitted, point, bot_says,
                       sysout, consumed, drained, answered, input>>
        /\ UNCHANGED <<embedVars, ctorVars>>

\* prompt: bot.stdin.write(b"\n").
PromptNewline ==
    /\ pc = "write_nl"
    /\ stdin' = [stdin EXCEPT ![bot] = Append(@, NL)]
    /\ pc' = "flush"
    /\ UNCHANGED <<bot, alive, spawned, flushed, pipe, emitted, caller,
                   write_to_stdout, point, bot_says, sysout, result, error,
                   curPrompt, calls, consumed, drained, answered, input>>
    /\ UNCHANGED <<embedVars, ctorVars>>

\* prompt: bot.stdin.flush(), which raises BrokenPipeError when the child is
\* gone, then return self._parse_to_prompt(write_to_stdout).
PromptFlush ==
    /\ pc = "flush"
    /\ IF bot \in alive
       THEN /\ flushed' = [flushed EXCEPT ![bot] = Len(stdin[bot])]
            /\ StartReader(write_to_stdout)
            /\ UNCHANGED error
       ELSE /\ error' = "BrokenPipeError"
            /\ pc' = "idle"
            /\ UNCHANGED <<flushed, point, bot_says, consumed, write_to_stdout>>
    /\ UNCHANGED <<bot, alive, spawned, stdin, pipe, emitted, caller, sysout, result,
                   curPrompt, calls, drained, answered, input>>
    /\ UNCHANGED <<embedVars, ctorVars>>

\* The child writes a byte to its stdout (the pipe holds one byte here).
ChildEmit ==
    \E b \in RawBytes :
        /\ bot \in alive
        /\ pipe = <<>>
        /\ emitted < MaxEmit
        /\ pipe' = <<b>>
        /\ emitted' = emitted + 1
        /\ UNCHANGED <<bot, alive, spawned, stdin, flushed, pc, caller,
                       write_to_stdout, point, bot_says, sysout, result, error,
                       curPrompt, calls, consumed, drained, answered, input>>
        /\ UNCHANGED <<embedVars, ctorVars>>

\* The child exits on its own.
ChildExit ==
    /\ bot \in alive
    /\ alive' = alive \ {bot}
    /\ UNCHANGED <<bot, spawned, stdin, flushed, pipe, emitted, pc, caller,
                   write_to_stdout, point, bot_says, sysout, result, error,
                   curPrompt, calls, consumed, drained, answered, input>>
    /\ UNCHANGED <<embedVars, ctorVars>>

Init == SessionIdle /\ EmbedIdle /\ CtorIdle

Next ==
    \/ Connect \/ Enter \/ Close \/ Exit
    \/ Prompt \/ PromptNewline \/ PromptFlush
    \/ ReadByte \/ ReadEOF \/ DecodeStep
    \/ ChildEmit \/ ChildExit

Spec == Init /\ [][Next]_vars

(***************************************************************************)
(* Properties of the reader, under SpecReader.                             *)
(***************************************************************************)
HasSentinel(s) == \E i \in 1..Len(s) : s[i] = FF

ValidFramed == input.kind = "framed" /\ input.garbage = <<>>

\* C1: the bytes of a valid UTF-8 text without sentinel, delivered one per read
\* and followed by one sentinel, make _parse_to_prompt return exactly that text
\* (multi-byte characters whole, each newline one line separator), and it returns
\* on the sentinel: the stream is never used up with the reader still waiting.
C1_ValidTextReturned ==
    ValidFramed =>
        /\ (pc = "idle" => result = Str(input.text) /\ pipe = <<>>)
        /\ (pipe = <<>> => pc \in {"decode", "idle"})

C1_Witness ==
    /\ ValidFramed
    /\ input.text = <<128512, NL, 8364>>
    /\ pc = "idle"
    /\ result = Str(<<128512, NL, 8364>>)

\* C2 (as claimed): for every byte stream the read cycle returns on the first
\* sentinel byte it reads, whatever came before: the reader never waits for a
\* further byte after a sentinel was read, and when it has returned the only
\* sentinel it consumed is the last byte it consumed.
C2_ReturnsAtFirstSentinel ==
    /\ (pc = "read" => ~HasSentinel(consumed))
    /\ (pc = "idle" => ~HasSentinel(SubSeq(consumed, 1, Len(consumed) - 1)))

\* C3 (as claimed): after a run of more than 4 undecodable bytes, followed by a
\* valid text and the sentinel, the reader returns and the returned text holds
\* every character of the text that follows the run.
C3_TextAfterGarbageKept ==
    (input.kind = "framed" /\ Len(input.garbage) > 4) =>
        /\ error = "none"
        /\ (pc = "idle" => result = Str(input.text))
        /\ (pipe = <<>> => pc \in {"decode", "idle"})

\* C4 (as claimed): the accumulator never holds 5 or more bytes.
C4_AtMostFourAlways == Len(point) <= 4

\* C4 (amended): the accumulator holds at most 5 bytes right after a byte is
\* appended, and at most 4 whenever the reader waits for the next byte.
C4_AtMostFiveThenFour ==
    /\ Len(point) <= 5
    /\ (pc # "decode" => Len(point) <= 4)

C4_Witness == pc = "decode" /\ Len(point) = 5 /\ Utf8Decode(point) = DecodeError

(***************************************************************************)
(* Properties of the session, under Spec.                                  *)
(***************************************************************************)
CloseCalls == {"close", "__exit__"}

Reading == pc \in {"read", "decode"}

IsSuffix(x, s) == Len(x) <= Len(s) /\ SubSeq(s, Len(s) - Len(x) + 1, Len(s)) = x

RECURSIVE Count(_, _)
Count(b, s) ==
    IF s = <<>> THEN 0 ELSE (IF Head(s) = b THEN 1 ELSE 0) + Count(b, Tail(s))

\* Prompts delivered to child p: the newlines among the flushed bytes of its stdin.
Delivered(p) == Count(NL, SubSeq(stdin[p], 1, flushed[p]))

\* C5 (as claimed): close and __exit__ never raise, also with no child active,
\* and leave the session without a process.
C5_CloseNeverRaises ==
    caller \in CloseCalls => (error = "none" /\ bot = None /\ alive = {})

\* C6: at most one child spawned by the session is alive, and it is the one the
\* handle names; connect on a connected session kills the old child before it
\* spawns the new one; after close no child is alive and the handle is None.
C6_AtMostOneChild ==
    /\ Cardinality(alive) <= 1
    /\ alive \subseteq {bot}
    /\ (caller \in CloseCalls => (bot = None /\ alive = {}))

C6_Witness ==
    /\ calls = 2 /\ spawned = 2 /\ caller \in ConnectCalls
    /\ bot = 2 /\ alive = {2}

\* C7: no byte is written to a child's stdin before connect has read that
\* child's banner up to a sentinel, with write_to_stdout False and the text
\* discarded; a prompt call writes the prompt's UTF-8 bytes, then one newline,
\* then flushes, and only then reads; it returns only on a sentinel; and every
\* prompt delivered to a child is answered before the next one is written.
C7_DrainThenOnePromptAtATime ==
    /\ \A p \in Pids : stdin[p] # <<>> => p \in drained
    /\ (Reading /\ caller \in ConnectCalls) => ~write_to_stdout
    /\ (pc = "idle" /\ caller \in ConnectCalls) => result = NoResult
    /\ (pc = "idle" /\ caller \in ConnectCalls /\ error = "none") =>
           (consumed # <<>> /\ consumed[Len(consumed)] = FF)
    /\ pc = "write_nl" =>
           (IsSuffix(Utf8Encode(curPrompt), stdin[bot]) /\ flushed[bot] <= Len(stdin[bot]))
    /\ pc = "flush" =>
           (IsSuffix(Utf8Encode(curPrompt) \o <<NL>>, stdin[bot])
            /\ flushed[bot] < Len(stdin[bot]))
    /\ (Reading /\ caller = "prompt") =>
           (IsSuffix(Utf8Encode(curPrompt) \o <<NL>>, stdin[bot])
            /\ flushed[bot] = Len(stdin[bot]))
    /\ (pc = "idle" /\ caller = "prompt" /\ error = "none") =>
           (result.kind = "str" /\ consumed # <<>> /\ consumed[Len(consumed)] = FF)
    /\ \A p \in Pids :
           Delivered(p) = answered[p]
               + (IF Reading /\ caller = "prompt" /\ bot = p THEN 1 ELSE 0)

C7_Witness ==
    /\ pc = "idle" /\ caller = "prompt" /\ error = "none"
    /\ bot = 1 /\ 1 \in drained
    /\ stdin[1] = <<104, 195, 169, NL>>
    /\ answered[1] = 1

(***************************************************************************)
(* sagemaker.py: tokenize_text and create_sm_request_for_batch.  The       *)
(* tokenizer is any function from texts to token id sequences; a behaviour *)
(* makes one call.                                                         *)
(***************************************************************************)
EMPTY_PLACEHOLDER == "24df574ea1c998de59d5be15e769658e"

EmbedTexts == {"", "hello", "a longer sentence", EMPTY_PLACEHOLDER}

TokenIds == {1, 2}

ModelArgs == {"None", "nomic-embed-text-v1.5"}

Raise(e) == [NoIds EXCEPT !.error = e]

\* tokenizer.encode(text, add_special_tokens=...).ids; load_tokenizer(model)
\* gives the configured tokenizer.
EncodeIds(text) == tokenizer[text]

\* tokenize_text(text, tokenizer, model); hasTok: tokenizer is not None.
RECURSIVE tokenize_text(_, _, _)
tokenize_text(text, hasTok, model) ==
    IF ~hasTok /\ model = "None"
    THEN Raise("ValueError")
    ELSE LET all_tokens == EncodeIds(text)
         IN IF Len(all_tokens) = 0
            THEN LET inner == tokenize_text(EMPTY_PLACEHOLDER, FALSE, "None")
                 IN IF inner.error # "none" THEN inner
                    ELSE Raise("AttributeError")   \* .ids of a list
            ELSE [NoIds EXCEPT !.ids = all_tokens]

Max(S) == CHOOSE x \in S : \A y \in S : y <= x

\* create_sm_request_for_batch(texts, tokenizer): the two arrays handed to the
\* request and the shape both inputs are declared with (input_ids.shape).
create_sm_request_for_batch(texts) ==
    LET n == Len(texts)
        all_tokens == [i \in 1..n |-> tokenize_text(texts[i], TRUE, "None")]
        failed == {i \in 1..n : all_tokens[i].error # "none"}
        lens == {Len(all_tokens[i].ids) : i \in 1..n}
    IN IF failed # {}
       THEN all_tokens[CHOOSE i \in failed : \A j \in failed : i <= j]
       ELSE IF Cardinality(lens) > 1
       THEN Raise("ValueError")     \* np.array of rows of different lengths
       ELSE IF n = 0
       THEN Raise("ValueError")     \* max() of an empty sequence
       ELSE LET mlen == Max(lens)
            IN [error |-> "none", ids |-> <<>>,
                input_ids |-> [i \in 1..n |-> all_tokens[i].ids],
                attention_mask |->
                    [i \in 1..n |->
                        [k \in 1..mlen |->
                            IF k <= Len(all_tokens[i].ids) THEN 1 ELSE 0]],
                shape |-> <<n, mlen>>]

TokenizeCall ==
    \E text \in EmbedTexts, hasTok \in BOOLEAN, model \in ModelArgs :
        /\ embedCall.op = "none"
        /\ embedCall' = [op |-> "tokenize_text", text |-> text, texts |-> <<>>,
                         hasTok |-> hasTok, model |-> model]
        /\ embedOut' = tokenize_text(text, hasTok, model)
        /\ UNCHANGED <<tokenizer, sessionVars, ctorVars>>

BatchCall ==
    \E texts \in SeqsUpTo(EmbedTexts, MaxBatch) :
        /\ embedCall.op = "none"
        /\ embedCall' = [op |-> "create_sm_request_for_batch", text |-> "",
                         texts |-> texts, hasTok |-> TRUE, model |-> "None"]
        /\ embedOut' = create_sm_request_for_batch(texts)
        /\ UNCHANGED <<tokenizer, sessionVars, ctorVars>>

InitEmbed ==
    /\ tokenizer \in [EmbedTexts -> SeqsUpTo(TokenIds, MaxTokens)]
    /\ embedCall = [op |-> "none", text |-> "", texts |-> <<>>, hasTok |-> FALSE,
                    model |-> "None"]
    /\ embedOut = NoIds
    /\ SessionIdle /\ CtorIdle

NextEmbed == TokenizeCall \/ BatchCall

SpecEmbed == InitEmbed /\ [][NextEmbed]_vars

\* C8 (as claimed): given a tokenizer and a text it turns into zero tokens,
\* tokenize_text does not raise and returns the non-empty token ids of the
\* placeholder text.
C8_PlaceholderTokens ==
    (/\ embedCall.op = "tokenize_text"
     /\ embedCall.hasTok
     /\ Len(tokenizer[embedCall.text]) = 0
     /\ Len(tokenizer[EMPTY_PLACEHOLDER]) > 0) =>
        /\ embedOut.error = "none"
        /\ embedOut.ids = tokenizer[EMPTY_PLACEHOLDER]

\* C9 (as claimed): for a non-empty batch of n texts, each with at least one
\* token, the request holds input_ids and attention_mask of shape [n, max_len],
\* row i of the mask being len(tokens_i) ones and then zeros.
C9_PaddedBatch ==
    (/\ embedCall.op = "create_sm_request_for_batch"
     /\ Len(embedCall.texts) > 0
     /\ \A i \in 1..Len(embedCall.texts) : Len(tokenizer[embedCall.texts[i]]) > 0) =>
        LET n == Len(embedCall.texts)
            mlen == Max({Len(tokenizer[embedCall.texts[i]]) : i \in 1..n})
        IN /\ embedOut.error = "none"
           /\ embedOut.shape = <<n, mlen>>
           /\ Len(embedOut.input_ids) = n
           /\ Len(embedOut.attention_mask) = n
           /\ \A i \in 1..n :
                  /\ Len(embedOut.input_ids[i]) = mlen
                  /\ embedOut.attention_mask[i] =
                         [k \in 1..mlen |->
                             IF k <= Len(tokenizer[embedCall.texts[i]]) THEN 1 ELSE 0]

(***************************************************************************)
(* gpt4all.py: the constructor of GPT4All and its two download helpers.    *)
(* A file is absent, empty (size 0), old (there before the call, size > 0) *)
(* or new (written by a download that answered 200).                       *)
(***************************************************************************)
ValidModels == {"gpt4all-lora-quantized", "gpt4all-lora-unfiltered-quantized"}

ModelNames == ValidModels \cup {"other"}

Platforms == {"macOS-arm64", "macOS-x86_64", "Linux", "Windows"}

\* 'macOS' in plat and 'arm64' in plat, or 'Linux' in plat.
Supported(plat) == plat \in {"macOS-arm64", "Linux"}

Statuses == {200, 404}

Exists(f) == f # "absent"

\* _download_executable: [file, requested, raised] for the executable in state f
\* when the server answers status.
DownloadExecutable(f, status) ==
    IF ~Exists(f)
    THEN IF Supported(platform)
         THEN [file |-> IF status = 200 THEN "new" ELSE f,
               requested |-> TRUE, raised |-> FALSE]
         ELSE [file |-> f, requested |-> FALSE, raised |-> TRUE]
    ELSE [file |-> f, requested |-> FALSE, raised |-> FALSE]

\* _download_model, likewise.
DownloadModel(f, status) ==
    IF ~Exists(f)
    THEN [file |-> IF status = 200 THEN "new" ELSE f,
          requested |-> TRUE, raised |-> FALSE]
    ELSE [file |-> f, requested |-> FALSE, raised |-> FALSE]

\* GPT4All(model, force_download), the servers answering exeStatus and
\* modelStatus to the requests made.
Construct ==
    \E model \in ModelNames, force \in BOOLEAN, exeStatus \in Statuses,
       modelStatus \in Statuses :
        /\ ctor.n < MaxCtor
        /\ IF model \notin ValidModels
           THEN /\ ctor' = [NoCtor EXCEPT !.n = ctor.n + 1, !.model = model,
                                          !.force = force, !.error = "AssertionError"]
                /\ UNCHANGED fs
           ELSE LET wantExe == force \/ ~Exists(fs.exe)
                    exe == IF wantExe THEN DownloadExecutable(fs.exe, exeStatus)
                           ELSE [file |-> fs.exe, requested |-> FALSE, raised |-> FALSE]
                    wantModel == ~exe.raised
                                 /\ (force \/ ~(Exists(fs.model[model])
                                                /\ fs.model[model] # "empty"))
                    mdl == IF wantModel THEN DownloadModel(fs.model[model], modelStatus)
                           ELSE [file |-> fs.model[model], requested |-> FALSE,
                                 raised |-> FALSE]
                IN /\ fs' = [exe |-> exe.file,
                             model |-> [fs.model EXCEPT ![model] = mdl.file]]
                   /\ ctor' = [n |-> ctor.n + 1, model |-> model, force |-> force,
                               error |-> IF exe.raised THEN "NotImplementedError"
                                         ELSE "none",
                               decided |-> {a \in {"executable"} : wantExe}
                                           \cup {a \in {"model"} : wantModel},
                               requested |-> {a \in {"executable"} : exe.requested}
                                             \cup {a \in {"model"} : mdl.requested},
                               fetched |-> {a \in {"executable"} :
                                                exe.requested /\ exeStatus = 200}
                                           \cup {a \in {"model"} :
                                                mdl.requested /\ modelStatus = 200}]
        /\ UNCHANGED <<platform, sessionVars, embedVars>>

InitCtor ==
    /\ fs \in [exe : {"absent", "old"},
               model : [ValidModels -> {"absent", "empty", "old"}]]
    /\ platform \in Platforms
    /\ ctor = NoCtor
    /\ SessionIdle /\ EmbedIdle

NextCtor == Construct

SpecCtor == InitCtor /\ [][NextCtor]_vars

\* C10 (as claimed): a constructor call that returns has issued a download
\* request for every artifact it decided to fetch (forced, missing, or a model
\* file of size 0), and after a fetch that succeeded the file is the new one.
C10_DecidedIsRequested ==
    (ctor.n > 0 /\ ctor.error = "none") =>
        /\ ctor.decided \subseteq ctor.requested
        /\ ("executable" \in ctor.fetched => fs.exe = "new")
        /\ ("model" \in ctor.fetched => fs.model[ctor.model] = "new")

====
